---- MODULE Spec2Model ----
(***************************************************************************)
(* Model of src/app.py: the pandas pipeline of the sales dashboard         *)
(* (clean_data, add_aggregated_features) and the Streamlit script run      *)
(* (main).                                                                 *)
(*                                                                         *)
(* A DataFrame is a record [columns, index, rows]: the column names in     *)
(* order, the index labels in order, and one row per label, a function     *)
(* from column name to cell.  DataFrames are objects: the heap is a        *)
(* sequence of DataFrame values and a reference is a position in it, so    *)
(* that an in-place column assignment is seen through every reference.     *)
(*                                                                         *)
(* A numeric cell is NaN or Num(v) for an integer v.  A float64 quotient   *)
(* of two integers is kept as the reduced fraction Quot(n, d): IEEE-754    *)
(* division is correctly rounded, so the fraction determines the double;   *)
(* F64 gives that double, and F64Add adds doubles with round-to-nearest-   *)
(* even, as numpy does.                                                    *)
(***************************************************************************)
EXTENDS Integers, Sequences, FiniteSets, TLC

\* ------------------------------------------------------------------ bounds
MaxRows == 3
MaxRuns == 3

\* ------------------------------------------------------------ numeric cells
NaN == <<>>
Num(v) == <<v>>
isna(c) == c = NaN
Val(c) == c[1]

\* ---------------------------------------------------------------- DataFrame
\* The sheets of the model: the measure column is named 'Sales' or not, a
\* measure is null or one of four numbers, and a Record is of one of three
\* (country, segment) groups.
MeasureColumns == {"Sales", "Revenue"}
MeasureCells == {NaN} \cup {Num(v) : v \in {0 - 1, 0, 1, 4}}
GroupKeys == {<<"A", "X">>, <<"A", "Y">>, <<"B", "X">>}

RangeIndex(n) == [i \in 1..n |-> i - 1]

\* One row of a sheet whose measure column is named m.
MakeRow(m, cell, c, s) ==
    [k \in {m, "Country", "Segment"} |->
       IF k = m THEN cell ELSE IF k = "Country" THEN c ELSE s]

SheetRows(m) ==
    { MakeRow(m, cell, k[1], k[2]) : cell \in MeasureCells, k \in GroupKeys }

\* The DataFrame pd.read_excel returns for a sheet with a measure column
\* named m, a Country column and a Segment column, and the rows rs.
Sheet(m, rs) ==
    [columns |-> <<m, "Country", "Segment">>,
     index |-> RangeIndex(Len(rs)),
     rows |-> rs]

\* 'c' in df.columns
HasColumn(df, c) == \E i \in DOMAIN df.columns : df.columns[i] = c

\* df[c]: the Series of column c
getitem(df, c) == [index |-> df.index, values |-> [i \in DOMAIN df.rows |-> df.rows[i][c]]]

\* Series.fillna(v)
fillna(s, v) ==
    [s EXCEPT !.values = [i \in DOMAIN s.values |->
                            IF isna(s.values[i]) THEN Num(v) ELSE s.values[i]]]

\* The value a Series holds at index label l (NaN when the label is absent).
AtLabel(s, l) ==
    IF \E j \in DOMAIN s.index : s.index[j] = l
    THEN s.values[CHOOSE j \in DOMAIN s.index : s.index[j] = l]
    ELSE NaN

\* df[c] = s: the column is assigned in place, aligned on the index labels;
\* a new column is appended to df.columns.
setitem(df, c, s) ==
    [columns |-> IF HasColumn(df, c) THEN df.columns ELSE Append(df.columns, c),
     index |-> df.index,
     rows |-> [i \in DOMAIN df.rows |->
                 [k \in (DOMAIN df.rows[i]) \cup {c} |->
                    IF k = c THEN AtLabel(s, df.index[i]) ELSE df.rows[i][k]]]]

\* Mutant of ge_cell: the comparison is written the wrong way round (<=).
ge_cell_flipped(c, v) == ~isna(c) /\ Val(c) <= v

\* One comparison of the mask s >= v: a comparison with NaN is False.
ge_cell(c, v) == ~isna(c) /\ Val(c) >= v

\* s >= v: the boolean mask
ge(s, v) == [i \in DOMAIN s.values |-> ge_cell(s.values[i], v)]

\* Mutant of Kept: rows are removed while iterating, so the row after a
\* removed one is never examined and stays.
Kept_skipping(mask) ==
    LET Removed[i \in 0..Len(mask)] ==
            IF i = 0 THEN FALSE ELSE ~mask[i] /\ ~Removed[i - 1]
        F[i \in 0..Len(mask)] ==
            IF i = 0 THEN <<>>
            ELSE IF Removed[i] THEN F[i - 1] ELSE Append(F[i - 1], i)
    IN F[Len(mask)]

\* The positions a mask keeps, in order.
Kept(mask) ==
    LET F[i \in 0..Len(mask)] ==
            IF i = 0 THEN <<>>
            ELSE IF mask[i] THEN Append(F[i - 1], i) ELSE F[i - 1]
    IN F[Len(mask)]

\* df[mask]: a new DataFrame of the rows the mask keeps, with their labels.
getitem_mask(df, mask) ==
    LET k == Kept(mask)
    IN [columns |-> df.columns,
        index |-> [i \in DOMAIN k |-> df.index[k[i]]],
        rows |-> [i \in DOMAIN k |-> df.rows[k[i]]]]

\* Mutant of clean_data: the rows are filtered before the nulls are replaced.
clean_data_filter_first(h, df) ==
    IF HasColumn(h[df], "Sales")
    THEN LET mask == ge(getitem(h[df], "Sales"), 0)
             h1 == [h EXCEPT ![df] = setitem(h[df], "Sales",
                                             fillna(getitem(h[df], "Sales"), 0))]
             new == getitem_mask(h1[df], mask)
         IN [heap |-> Append(h1, new), ret |-> Len(h1) + 1]
    ELSE [heap |-> h, ret |-> df]

\* Mutant of clean_data: the measure is taken to be the first column, whatever
\* its name.
clean_data_first_column(h, df) ==
    LET m == h[df].columns[1]
        h1 == [h EXCEPT ![df] = setitem(h[df], m, fillna(getitem(h[df], m), 0))]
        new == getitem_mask(h1[df], ge(getitem(h1[df], m), 0))
    IN [heap |-> Append(h1, new), ret |-> Len(h1) + 1]

\* clean_data(df) on heap h: the heap after the call and the reference returned.
clean_data(h, df) ==
    IF HasColumn(h[df], "Sales")
    THEN LET h1 == [h EXCEPT ![df] = setitem(h[df], "Sales",
                                             fillna(getitem(h[df], "Sales"), 0))]
             new == getitem_mask(h1[df], ge(getitem(h1[df], "Sales"), 0))
         IN [heap |-> Append(h1, new), ret |-> Len(h1) + 1]
    ELSE [heap |-> h, ret |-> df]

\* ------------------------------------------------------------------ floats
RECURSIVE GCD(_, _)
GCD(a, b) == IF b = 0 THEN a ELSE GCD(b, a % b)

Abs(x) == IF x < 0 THEN 0 - x ELSE x

\* The float64 value of n / d for integers n and d, kept as a reduced fraction
\* with a positive denominator; a zero denominator gives nan (0/0) or +-inf,
\* as numpy's division does.
Quot(n, d) ==
    IF d = 0
    THEN [num |-> IF n > 0 THEN 1 ELSE IF n < 0 THEN 0 - 1 ELSE 0, den |-> 0]
    ELSE LET g == GCD(Abs(n), Abs(d))
             sgn == IF d < 0 THEN 0 - 1 ELSE 1
         IN [num |-> sgn * (n \div g), den |-> sgn * (d \div g)]

FloatNaN == [num |-> 0, den |-> 0]

\* A float64 of the model's range is held exactly on a fixed-point grid of
\* five 16-bit limbs <<x1, ..., x5>>, standing for
\* x1 + x2/2^16 + x3/2^32 + x4/2^48 + x5/2^64.  Bit g (0 <= g < 80) of a grid
\* value has weight 2^(15 - g); it is bit 15 - g % 16 of limb g \div 16 + 1.
Pow2(k) ==
    <<1, 2, 4, 8, 16, 32, 64, 128, 256, 512, 1024, 2048, 4096, 8192, 16384,
      32768, 65536>>[k + 1]

Limb == Pow2(16)
GridBits == 5 * 16

\* The significand of a float64: 52 stored bits and the implicit leading one.
Precision == 52 + 1

GridZero == <<0, 0, 0, 0, 0>>

\* The exact sum of two grid values, limb by limb with carry.
GridAdd(a, b) ==
    LET s5 == a[5] + b[5]
        s4 == a[4] + b[4] + s5 \div Limb
        s3 == a[3] + b[3] + s4 \div Limb
        s2 == a[2] + b[2] + s3 \div Limb
        s1 == a[1] + b[1] + s2 \div Limb
    IN <<s1 % Limb, s2 % Limb, s3 % Limb, s4 % Limb, s5 % Limb>>

\* Bit g of a grid value.
GridBit(x, g) == (x[(g \div 16) + 1] \div Pow2(15 - (g % 16))) % 2

\* The grid value with only bit g set.
GridUnit(g) == [i \in 1..5 |-> IF i = (g \div 16) + 1 THEN Pow2(15 - (g % 16)) ELSE 0]

\* The grid value with the bits after bit g cleared.
GridTrunc(x, g) ==
    [i \in 1..5 |->
        IF i < (g \div 16) + 1 THEN x[i]
        ELSE IF i = (g \div 16) + 1
             THEN (x[i] \div Pow2(15 - (g % 16))) * Pow2(15 - (g % 16))
             ELSE 0]

\* The first set bit of a nonzero grid value: in its first nonzero limb, the
\* bit of the largest power of two the limb reaches.
Leading(x) ==
    LET i == CHOOSE i \in 1..5 : x[i] # 0 /\ \A j \in 1..(i - 1) : x[j] = 0
        k == CHOOSE k \in 0..15 : Pow2(k) <= x[i] /\ x[i] < Pow2(k + 1)
    IN 16 * (i - 1) + (15 - k)

\* Round-to-nearest, ties-to-even, of a grid value to Precision significant
\* bits; sticky says that the exact value has nonzero bits below the grid.
RoundF64(x, sticky) ==
    IF x = GridZero THEN x
    ELSE LET last == Leading(x) + Precision - 1
         IN IF last >= GridBits - 1 THEN x
            ELSE LET t == GridTrunc(x, last)
                     rest == sticky \/ GridTrunc(x, last + 1) # x
                     up == GridBit(x, last + 1) = 1 /\ (rest \/ GridBit(x, last) = 1)
                 IN IF up THEN GridAdd(t, GridUnit(last)) ELSE t

\* n / d on the grid, for 0 <= n and 0 < d < 2^15, by long division, one limb
\* at a step: the limbs, and the remainder left below the grid.
LongDiv(n, dd) ==
    LET r1 == n % dd
        r2 == (r1 * Limb) % dd
        r3 == (r2 * Limb) % dd
        r4 == (r3 * Limb) % dd
    IN [limbs |-> <<n \div dd, (r1 * Limb) \div dd, (r2 * Limb) \div dd,
                    (r3 * Limb) \div dd, (r4 * Limb) \div dd>>,
        rem |-> (r4 * Limb) % dd]

\* The float64 a fraction q >= 0 stands for: its quotient, correctly rounded.
F64(q) ==
    LET r == LongDiv(q.num, q.den)
    IN RoundF64(r.limbs, r.rem # 0)

\* ------------------------------------------------------------ aggregation
\* The group key of a row: its values in the columns `by`.
KeyOf(row, by) == [i \in DOMAIN by |-> row[by[i]]]

\* The order of the strings of the model, as Python compares them.
StrRank(x) == CASE x = "A" -> 1 [] x = "B" -> 2 [] x = "X" -> 3 [] x = "Y" -> 4

\* k1 < k2, keys compared as tuples of strings.
KeyLess(k1, k2) ==
    \E i \in DOMAIN k1 :
        /\ StrRank(k1[i]) < StrRank(k2[i])
        /\ \A j \in 1..(i - 1) : k1[j] = k2[j]

\* The keys of a set in ascending order (groupby sorts the group keys).
RECURSIVE SortKeys(_)
SortKeys(ks) ==
    IF ks = {} THEN <<>>
    ELSE LET m == CHOOSE k \in ks : \A o \in ks : o = k \/ KeyLess(k, o)
         IN <<m>> \o SortKeys(ks \ {m})

\* The cells of column col in the rows of df whose key is k, in row order.
GroupCells(df, by, col, k) ==
    LET F[i \in 0..Len(df.rows)] ==
            IF i = 0 THEN <<>>
            ELSE IF KeyOf(df.rows[i], by) = k
                 THEN Append(F[i - 1], df.rows[i][col])
                 ELSE F[i - 1]
    IN F[Len(df.rows)]

\* 'sum' of a group: NaN cells are skipped; the sum of no cell is 0.
RECURSIVE agg_sum(_)
agg_sum(cells) ==
    IF cells = <<>> THEN 0
    ELSE (IF isna(Head(cells)) THEN 0 ELSE Val(Head(cells))) + agg_sum(Tail(cells))

\* The number of cells of a group that are not NaN.
RECURSIVE agg_count(_)
agg_count(cells) ==
    IF cells = <<>> THEN 0
    ELSE (IF isna(Head(cells)) THEN 0 ELSE 1) + agg_count(Tail(cells))

\* 'mean' of a group: the sum of the cells that are not NaN over their number
\* (nan when there is none).
agg_mean(cells) == Quot(agg_sum(cells), agg_count(cells))

\* df.groupby(by)[col].agg(['mean', 'sum']).reset_index(), with the two
\* statistics renamed: one row per group key, in key order.
groupby_agg(df, by, col) ==
    LET keys == SortKeys({ KeyOf(df.rows[i], by) : i \in DOMAIN df.rows })
        GroupRow(k) ==
            LET cells == GroupCells(df, by, col, k)
                mean == agg_mean(cells)
                sum == agg_sum(cells)
            IN [c \in {by[i] : i \in DOMAIN by}
                      \cup {"avg_sales_by_group", "total_sales_by_group"} |->
                  IF c = "avg_sales_by_group" THEN mean
                  ELSE IF c = "total_sales_by_group" THEN Num(sum)
                  ELSE k[CHOOSE i \in DOMAIN by : by[i] = c]]
        F[g \in 0..Len(keys)] ==
            IF g = 0 THEN <<>> ELSE Append(F[g - 1], GroupRow(keys[g]))
    IN [columns |-> by \o <<"avg_sales_by_group", "total_sales_by_group">>,
        index |-> RangeIndex(Len(keys)),
        rows |-> F[Len(keys)]]

\* The columns of `right` that are not join keys.
ValueColumns(right, on) ==
    SelectSeq(right.columns, LAMBDA c : \A i \in DOMAIN on : on[i] # c)

\* The rows a left row yields in a left join: one per right row with the same
\* key, in the right's order, or one with NaN in the right's columns.
JoinRow(lrow, right, on) ==
    LET vc == ValueColumns(right, on)
        vcs == {vc[i] : i \in DOMAIN vc}
        m == Kept([j \in DOMAIN right.rows |-> KeyOf(right.rows[j], on) = KeyOf(lrow, on)])
        Joined(rrow) == [c \in (DOMAIN lrow) \cup vcs |->
                           IF c \in vcs THEN rrow[c] ELSE lrow[c]]
    IN IF m = <<>>
       THEN <<[c \in (DOMAIN lrow) \cup vcs |-> IF c \in vcs THEN NaN ELSE lrow[c]]>>
       ELSE [j \in DOMAIN m |-> Joined(right.rows[m[j]])]

\* pd.merge(left, right, on=on, how='left'): the left's rows in their order,
\* each with the right's columns; the result has a fresh RangeIndex.
merge_left(left, right, on) ==
    LET F[i \in 0..Len(left.rows)] ==
            IF i = 0 THEN <<>> ELSE F[i - 1] \o JoinRow(left.rows[i], right, on)
        rs == F[Len(left.rows)]
    IN [columns |-> left.columns \o ValueColumns(right, on),
        index |-> RangeIndex(Len(rs)),
        rows |-> rs]

\* Mutant of sales_ratio: the row's sales are divided by the group's mean
\* instead of the group's sum.
sales_ratio_by_mean(row) ==
    LET avg == row["avg_sales_by_group"]
        total == row["total_sales_by_group"]
    IN IF Val(total) # 0
       THEN Quot(Val(row["Sales"]) * avg.den, avg.num)
       ELSE Quot(0, 1)

\* Mutant of sales_ratio: the guard against a zero group sum is missing.
sales_ratio_unguarded(row) == Quot(Val(row["Sales"]), Val(row["total_sales_by_group"]))

\* lambda row: row['Sales'] / row['total_sales_by_group']
\*             if row['total_sales_by_group'] != 0 else 0
sales_ratio(row) ==
    LET total == row["total_sales_by_group"]
        sales == row["Sales"]
    IN IF isna(total) THEN FloatNaN
       ELSE IF Val(total) # 0
            THEN (IF isna(sales) THEN FloatNaN ELSE Quot(Val(sales), Val(total)))
            ELSE Quot(0, 1)

\* df.apply(lambda row: ..., axis=1): the Series of the lambda over the rows
\* (empty for no row).
apply_rows(df) ==
    [index |-> df.index, values |-> [i \in DOMAIN df.rows |-> sales_ratio(df.rows[i])]]

\* Mutant of MergeOn: the statistics are merged back on the country alone.
MergeOn_country == <<"Country">>

\* The columns grouped by, and the columns merged on.
GroupBy == <<"Country", "Segment">>
MergeOn == <<"Country", "Segment">>

\* add_aggregated_features(df) on heap h: the heap after the call, the
\* reference returned, and the exception raised ("" for none): selecting a
\* missing column raises KeyError.
add_aggregated_features(h, df) ==
    IF ~(HasColumn(h[df], "Country") /\ HasColumn(h[df], "Segment")
          /\ HasColumn(h[df], "Sales"))
    THEN [heap |-> h, ret |-> 0, exc |-> "KeyError"]
    ELSE LET group_df == groupby_agg(h[df], GroupBy, "Sales")
             merged == merge_left(h[df], group_df, MergeOn)
             result == setitem(merged, "sales_ratio", apply_rows(merged))
         IN [heap |-> Append(h, result), ret |-> Len(h) + 1, exc |-> ""]

\* ----------------------------------------------------------------- main
\* The names bound in the module's namespace when main runs: the three
\* imports and the four functions.  (requests and io are used by main and
\* are not among them.)
ModuleGlobals ==
    {"st", "pd", "px", "load_data", "clean_data", "add_aggregated_features", "main"}

\* Looking a global name up succeeds; otherwise it raises NameError.
Resolves(name) == name \in ModuleGlobals

github_url == "https://raw.githubusercontent.com/gpawank4/sales_prediction/main/data.xlsx"

\* What the network answers to a GET of the source.
NetOutcomes == {"ok", "transport_error", "bad_status"}

\* load_data(file_path) under @st.cache_data: the memo is keyed on the
\* argument; a miss reads the file and stores the result.  `cache` is the
\* set of keys memoized, `reads` the number of reads of the source.
load_data(cache, reads, file_path) ==
    IF file_path \in cache
    THEN [cache |-> cache, reads |-> reads]
    ELSE [cache |-> cache \cup {file_path}, reads |-> reads + 1]

\* The frame of one run of main: the local `data` (0: unbound), the objects it
\* made, the exception that is propagating ("" for none), what the source
\* answers during the run (net), and what the run did: the GETs sent, the
\* st.error messages shown, the calls of clean_data and of
\* add_aggregated_features, and whether the charts were rendered.
NewFrame(h) ==
    [heap |-> h, data |-> 0, exc |-> "", net |-> "", fetched |-> 0, st_error |-> 0,
     cleaned |-> 0, aggregated |-> 0, charts |-> FALSE]

\* Lines 120-127, the try statement.  The try body looks `requests` up; a
\* NameError raised there is matched against the except clause, whose
\* expression requests.exceptions.RequestException is evaluated and raises
\* NameError in turn.  With the name bound, a failed GET or a bad status
\* raises a RequestException, which the clause catches to call st.error;
\* a good answer is parsed, which looks `io` up.
main_load(f, sheet, outcome) ==
    IF ~Resolves("requests")
    THEN [f EXCEPT !.exc = "NameError", !.net = outcome]
    ELSE IF outcome # "ok"
         THEN [f EXCEPT !.net = outcome, !.fetched = 1, !.st_error = 1]
         ELSE IF ~Resolves("io")
              THEN [f EXCEPT !.net = outcome, !.fetched = 1, !.exc = "NameError"]
              ELSE [f EXCEPT !.net = outcome, !.fetched = 1,
                             !.heap = Append(f.heap, sheet),
                             !.data = Len(f.heap) + 1]

\* Line 129, data = clean_data(data): reading the unbound local `data`
\* raises UnboundLocalError before clean_data is called.
main_clean(f) ==
    IF f.exc # "" THEN f
    ELSE IF f.data = 0 THEN [f EXCEPT !.exc = "UnboundLocalError"]
    ELSE LET r == clean_data(f.heap, f.data)
         IN [f EXCEPT !.heap = r.heap, !.data = r.ret, !.cleaned = 1]

\* Line 130, data = add_aggregated_features(data).
main_aggregate(f) ==
    IF f.exc # "" THEN f
    ELSE LET r == add_aggregated_features(f.heap, f.data)
         IN IF r.exc # "" THEN [f EXCEPT !.aggregated = 1, !.exc = r.exc]
            ELSE [f EXCEPT !.heap = r.heap, !.data = r.ret, !.aggregated = 1]

\* Lines 132-231, the previews and the charts.
main_present(f) == IF f.exc # "" THEN f ELSE [f EXCEPT !.charts = TRUE]

\* One run of main, from its first line to its return or to the exception
\* that ends it: what the run did (the objects it made are dropped).
main(h, sheet, outcome) ==
    LET f == main_present(main_aggregate(main_clean(main_load(NewFrame(h), sheet, outcome))))
    IN [net |-> f.net, exc |-> f.exc, fetched |-> f.fetched, st_error |-> f.st_error,
        data_bound |-> f.data # 0, cleaned |-> f.cleaned, aggregated |-> f.aggregated,
        charts |-> f.charts]

\* ------------------------------------------------------------------- state
\* heap: the DataFrame objects; orig: the Dataset as loaded (a snapshot);
\* d, cleaned, recleaned, agg: references (0: not bound yet);
\* cleanedAtReturn: the value clean_data(d) had when it returned;
\* raised: the exception add_aggregated_features raised ("" for none).
\* session: what each run of the script did in this session, in order;
\* load_data_cache: the keys st.cache_data holds for load_data.
VARIABLES heap, orig, d, cleaned, cleanedAtReturn, recleaned, agg, raised,
          session, load_data_cache

vars == <<heap, orig, d, cleaned, cleanedAtReturn, recleaned, agg, raised,
          session, load_data_cache>>

pipeline == <<heap, orig, d, cleaned, cleanedAtReturn, recleaned, agg, raised>>

Init ==
    /\ \E m \in MeasureColumns, n \in 0..MaxRows :
          \E rs \in [1..n -> SheetRows(m)] : orig = Sheet(m, rs)
    /\ heap = <<orig>>
    /\ d = 1
    /\ cleaned = 0
    /\ cleanedAtReturn = 0
    /\ recleaned = 0
    /\ agg = 0
    /\ raised = ""
    /\ session = <<>>
    /\ load_data_cache = {}

\* data = clean_data(d)
CleanData ==
    /\ cleaned = 0
    /\ LET r == clean_data(heap, d)
       IN /\ heap' = r.heap
          /\ cleaned' = r.ret
          /\ cleanedAtReturn' = r.heap[r.ret]
    /\ UNCHANGED <<orig, d, recleaned, agg, raised, session, load_data_cache>>

\* clean_data(clean_data(d)), one continuation after the first call
CleanAgain ==
    /\ cleaned # 0
    /\ recleaned = 0
    /\ agg = 0 /\ raised = ""
    /\ LET r == clean_data(heap, cleaned)
       IN /\ heap' = r.heap
          /\ recleaned' = r.ret
    /\ UNCHANGED <<orig, d, cleaned, cleanedAtReturn, agg, raised, session, load_data_cache>>

\* data = add_aggregated_features(data) on the cleaned Dataset, the other
\* continuation
Aggregate ==
    /\ cleaned # 0
    /\ recleaned = 0
    /\ agg = 0 /\ raised = ""
    /\ session = <<>>
    /\ load_data_cache = {}
    /\ LET r == add_aggregated_features(heap, cleaned)
       IN /\ heap' = r.heap
          /\ agg' = r.ret
          /\ raised' = r.exc
    /\ UNCHANGED <<orig, d, cleaned, cleanedAtReturn, recleaned, session, load_data_cache>>

Next == CleanData \/ CleanAgain \/ Aggregate

Spec == Init /\ [][Next]_vars

\* A session of the dashboard: the source holds a sheet of at most one row,
\* and Streamlit runs the script once when the page opens and once more at
\* every interaction, each time from the first line of main.  load_data is
\* never called, so its cache is never written.
InitMain == Init /\ Len(orig.rows) <= 1

Main ==
    /\ Len(session) < MaxRuns
    /\ \E outcome \in NetOutcomes :
          session' = Append(session, main(heap, orig, outcome))
    /\ UNCHANGED <<pipeline, load_data_cache>>

NextMain == Main

SpecMain == InitMain /\ [][NextMain]_vars
\* ------------------------------------------------------- claims: clean_data
Measure(row) == row["Sales"]

HasNaN(df) == \E i \in DOMAIN df.rows : isna(Measure(df.rows[i]))
HasNegative(df) ==
    \E i \in DOMAIN df.rows : ~isna(Measure(df.rows[i])) /\ Val(Measure(df.rows[i])) < 0
HasNonNegative(df) ==
    \E i \in DOMAIN df.rows : ~isna(Measure(df.rows[i])) /\ Val(Measure(df.rows[i])) >= 0

\* C1: for an input with a 'Sales' column, every Record of the Dataset that
\* clean_data returns has a measure that is not null and is >= 0.
C1_CleanedNonNegative ==
    (cleaned # 0 /\ HasColumn(orig, "Sales")) =>
        \A i \in DOMAIN heap[cleaned].rows :
            /\ ~isna(Measure(heap[cleaned].rows[i]))
            /\ Val(Measure(heap[cleaned].rows[i])) >= 0

C1_Witness ==
    /\ cleaned # 0 /\ HasColumn(orig, "Sales")
    /\ HasNaN(orig) /\ HasNegative(orig)
    /\ Len(heap[cleaned].rows) = 2

\* C2: replacement before filtering.  A Record (told by its index label) whose
\* original measure is null survives with measure 0, one whose measure is
\* negative is absent, one whose measure is >= 0 survives unchanged, and the
\* survivors keep their relative order.
C2_ReplaceThenFilter ==
    (cleaned # 0 /\ HasColumn(orig, "Sales")) =>
        LET c == cleanedAtReturn
            At(l) == c.rows[CHOOSE j \in DOMAIN c.index : c.index[j] = l]
            Present(l) == \E j \in DOMAIN c.index : c.index[j] = l
        IN /\ \A i \in DOMAIN orig.rows :
                 LET r == orig.rows[i]
                     l == orig.index[i]
                 IN IF isna(Measure(r))
                    THEN Present(l) /\ At(l) = [r EXCEPT !["Sales"] = Num(0)]
                    ELSE IF Val(Measure(r)) < 0
                         THEN ~Present(l)
                         ELSE Present(l) /\ At(l) = r
           /\ \A j \in DOMAIN c.index : \E i \in DOMAIN orig.index : orig.index[i] = c.index[j]
           /\ \A j, k \in DOMAIN c.index : j < k => c.index[j] < c.index[k]
           /\ c.columns = orig.columns

C2_Witness ==
    /\ cleaned # 0 /\ HasColumn(orig, "Sales")
    /\ Len(orig.rows) = 3
    /\ isna(Measure(orig.rows[1]))
    /\ Measure(orig.rows[2]) = Num(0 - 1)
    /\ Measure(orig.rows[3]) = Num(4)
    /\ cleanedAtReturn.index = <<0, 2>>
    /\ Measure(cleanedAtReturn.rows[1]) = Num(0)

\* C3 (as claimed): after clean_data(d) returns, the Dataset d of the caller
\* is as it was before the call.
C3_InputUnchanged == cleaned # 0 => heap[d] = orig

\* C7: clean_data(clean_data(d)) equals clean_data(d).
C7_Idempotent == recleaned # 0 => heap[recleaned] = cleanedAtReturn

C7_Witness ==
    /\ recleaned # 0 /\ HasColumn(orig, "Sales")
    /\ HasNaN(orig) /\ HasNegative(orig) /\ HasNonNegative(orig)
    /\ recleaned # cleaned

\* C9: without a 'Sales' column clean_data returns the Dataset it was given,
\* its Records, order and values unchanged.
C9_PassThrough ==
    (cleaned # 0 /\ ~HasColumn(orig, "Sales")) =>
        /\ cleaned = d
        /\ cleanedAtReturn = orig
        /\ heap[d] = orig

C9_Witness ==
    /\ cleaned # 0 /\ ~HasColumn(orig, "Sales")
    /\ Len(orig.rows) = 2
    /\ isna(orig.rows[1]["Revenue"])
    /\ orig.rows[2]["Revenue"] = Num(0 - 1)
\* ------------------------------------------- claims: add_aggregated_features
\* The rows of df in the group of `row`: same country and same segment.
Members(df, row) ==
    { j \in DOMAIN df.rows : /\ df.rows[j]["Country"] = row["Country"]
                             /\ df.rows[j]["Segment"] = row["Segment"] }

\* The sum of the measures of the rows S of df.
RECURSIVE Total(_, _)
Total(df, S) ==
    IF S = {} THEN 0
    ELSE LET j == CHOOSE j \in S : TRUE
         IN Val(Measure(df.rows[j])) + Total(df, S \ {j})

\* The ratios of the rows of df in the group of `row`, in row order.
GroupRatios(df, row) ==
    LET F[i \in 0..Len(df.rows)] ==
            IF i = 0 THEN <<>>
            ELSE IF i \in Members(df, row)
                 THEN Append(F[i - 1], df.rows[i]["sales_ratio"])
                 ELSE F[i - 1]
    IN F[Len(df.rows)]

\* 1.0 on the grid.
GridOne == <<1, 0, 0, 0, 0>>

\* a <= b on the grid.
GridLeq(a, b) ==
    \/ a = b
    \/ \E i \in 1..5 : a[i] < b[i] /\ \A j \in 1..(i - 1) : a[j] = b[j]

\* x + y in float64.
F64Add(x, y) == RoundF64(GridAdd(x, y), FALSE)

\* The float64 sum of a sequence of fractions, added left to right.
F64Sum(qs) ==
    LET F[k \in 0..Len(qs)] ==
            IF k = 0 THEN GridZero ELSE F64Add(F[k - 1], F64(qs[k]))
    IN F[Len(qs)]

\* n * 2^(-52) on the grid, for 0 <= n < 16.
Ulps(n) == <<0, 0, 0, 0, n * Pow2(12)>>

First(df, i) == \A j \in Members(df, df.rows[i]) : i <= j

\* C6 (as claimed): in every group of an aggregated Dataset the ratios sum to
\* exactly 1 when the group-sum is > 0, and every ratio is 0 when it is 0.
C6_RatiosSumToOne ==
    agg # 0 =>
        \A i \in DOMAIN heap[agg].rows :
            LET out == heap[agg]
                sum == Total(out, Members(out, out.rows[i]))
            IN IF sum > 0
               THEN First(out, i) => F64Sum(GroupRatios(out, out.rows[i])) = GridOne
               ELSE out.rows[i]["sales_ratio"] = Quot(0, 1)

\* C6 (amended): in every group whose group-sum is > 0 the ratios are numbers
\* >= 0 whose float64 sum is within n * 2^-52 of 1, n the number of Records of
\* the group; in every group whose group-sum is 0 every ratio is 0.
C6_RatiosSumToOneRounded ==
    agg # 0 =>
        \A i \in DOMAIN heap[agg].rows :
            LET out == heap[agg]
                g == Members(out, out.rows[i])
                sum == Total(out, g)
                qs == GroupRatios(out, out.rows[i])
                near == Ulps(Cardinality(g))
            IN IF sum > 0
               THEN /\ out.rows[i]["sales_ratio"].den > 0
                    /\ out.rows[i]["sales_ratio"].num >= 0
                    /\ First(out, i) =>
                         /\ \A k \in DOMAIN qs : qs[k].den > 0 /\ qs[k].num >= 0
                         /\ LET total == F64Sum(qs)
                            IN /\ GridLeq(GridOne, GridAdd(total, near))
                               /\ GridLeq(total, GridAdd(GridOne, near))
               ELSE out.rows[i]["sales_ratio"] = Quot(0, 1)

\* A group of sum > 0 whose ratios do not sum to 1 in float64.
C6_Witness ==
    /\ agg # 0
    /\ \E i \in DOMAIN heap[agg].rows :
          /\ Total(heap[agg], Members(heap[agg], heap[agg].rows[i])) > 0
          /\ F64Sum(GroupRatios(heap[agg], heap[agg].rows[i])) # GridOne

\* C10: add_aggregated_features returns as many Records as it was given, in
\* the same order, each with its measure, country and segment unchanged, and
\* leaves the Dataset it was given as it was.
C10_OnlyAddsColumns ==
    agg # 0 =>
        LET in == cleanedAtReturn
            out == heap[agg]
        IN /\ Len(out.rows) = Len(in.rows)
           /\ \A i \in DOMAIN in.rows :
                \A c \in DOMAIN in.rows[i] : out.rows[i][c] = in.rows[i][c]
           /\ \A i \in 1..Len(in.columns) : out.columns[i] = in.columns[i]
           /\ heap[cleaned] = in

C10_Witness ==
    /\ agg # 0
    /\ Len(cleanedAtReturn.rows) = 3
    /\ Len(heap[agg].rows) = 3
    /\ Len(orig.rows) = 3
    /\ cleanedAtReturn.rows[1]["Country"] = cleanedAtReturn.rows[3]["Country"]
    /\ cleanedAtReturn.rows[1]["Segment"] = cleanedAtReturn.rows[3]["Segment"]
    /\ cleanedAtReturn.rows[1]["Country"] = cleanedAtReturn.rows[2]["Country"]
    /\ cleanedAtReturn.rows[1]["Segment"] # cleanedAtReturn.rows[2]["Segment"]
\* ------------------------------------------------------------ claims: main
\* C4 (as claimed): in a run in which the source cannot be retrieved (a
\* transport error or a bad status) the error is shown to the user by
\* st.error, no Dataset is bound, and neither clean_data nor
\* add_aggregated_features is called nor any chart rendered.
C4_LoadFailureReported ==
    \A k \in DOMAIN session :
        session[k].net \in {"transport_error", "bad_status"} =>
            /\ session[k].st_error > 0
            /\ ~session[k].data_bound
            /\ session[k].cleaned = 0
            /\ session[k].aggregated = 0
            /\ ~session[k].charts

\* C8 (as claimed): once a run has found the source retrievable, the load is
\* memoized under the source identifier and every later run renders the
\* charts without a new GET and without a new call of clean_data.
C8_RerenderFromMemo ==
    \A k \in DOMAIN session :
        (k > 1 /\ session[1].net = "ok") =>
            /\ github_url \in load_data_cache
            /\ session[k].charts
            /\ session[k].fetched = 0
            /\ session[k].cleaned = 0
====
